---- MODULE Spec2Model ----
(***************************************************************************)
(* Layout engine of the timeline generator (src/components/                *)
(* TimelinePreview.tsx, src/types.ts) and the part of the application      *)
(* (src/App.tsx) that feeds it.                                            *)
(*                                                                         *)
(* Number representation.                                                  *)
(*  - An instant is a Date's integer time value, counted in ticks; a day    *)
(*    is Days(1) ticks.  Constructing a Date from a fractional number       *)
(*    truncates towards zero (TimeClip).                                    *)
(*  - A pixel coordinate is an exact multiple of 1/200 px (Px(1) = 200).    *)
(*    The time scale is the only place where the source divides by a        *)
(*    data-dependent number; its result is rounded down to 1/100 px, so     *)
(*    every later halving ((x1 + x2) / 2, width / 2) is exact.              *)
(*  - contentScale is counted in halves (s = 2 means 1.0).                  *)
(*  - A date string is a record [valid, t]: valid strings parse to t, the   *)
(*    others (and a missing field, undefined) do not parse.                 *)
(*  - A label is a sequence of characters.                                  *)
(***************************************************************************)
EXTENDS Integers, Sequences, FiniteSets, TLC

----------------------------------------------------------------------------
(* Arithmetic helpers *)

Min2(a, b) == IF a <= b THEN a ELSE b
Max2(a, b) == IF a >= b THEN a ELSE b
Abs(a) == IF a >= 0 THEN a ELSE -a

SetMin(S) == CHOOSE x \in S : \A y \in S : x <= y
SetMax(S) == CHOOSE x \in S : \A y \in S : x >= y

Range(f) == {f[i] : i \in DOMAIN f}

\* floor(a * b / c) for a >= 0, b >= 0, c > 0, without forming a * b
MulDivNat(a, b, c) ==
    (a \div c) * b + (a % c) * (b \div c) + ((a % c) * (b % c)) \div c

\* floor(a * b / c) for any integer a, b >= 0, c > 0
MulDiv(a, b, c) ==
    IF a >= 0 THEN MulDivNat(a, b, c)
    ELSE LET q == MulDivNat(-a, b, c)
             exact == ((((-a) % c) * (b % c)) % c) = 0
         IN  IF exact THEN -q ELSE -q - 1

\* Truncation of n / d towards zero (d > 0): what Date does with a fraction
TruncDiv(n, d) == IF n >= 0 THEN n \div d ELSE -((-n) \div d)

\* Pixels and ticks
Px(n) == n * 200
Days(n) == n * 2
DayOf(t) == t \div Days(1)
YearOf(t) == t \div Days(365)

\* Array.prototype.sort((a, b) => a - b) on numbers
RECURSIVE InsertSorted(_, _)
InsertSorted(x, s) ==
    IF s = <<>> THEN <<x>>
    ELSE IF x < Head(s) THEN <<x>> \o s
    ELSE <<Head(s)>> \o InsertSorted(x, Tail(s))

RECURSIVE SortNumbers(_)
SortNumbers(s) ==
    IF s = <<>> THEN <<>>
    ELSE InsertSorted(s[Len(s)], SortNumbers(SubSeq(s, 1, Len(s) - 1)))

RECURSIVE SetToSortedSeq(_)
SetToSortedSeq(S) ==
    IF S = {} THEN <<>>
    ELSE LET m == SetMin(S) IN <<m>> \o SetToSortedSeq(S \ {m})

----------------------------------------------------------------------------
(* Date model: src/types.ts *)

DateStr(t) == [valid |-> TRUE, t |-> t]
BadDateStr == [valid |-> FALSE, t |-> 0]
Undefined == [valid |-> FALSE, t |-> 0]

\* item.date / item.startDate / item.endDate; a missing property is undefined
Field(item, f) == IF f \in DOMAIN item THEN item[f] ELSE Undefined

\* faulty variant of parseDate: the time value of the Date is returned as it
\* is, without the fallback to the current instant
parseDateUnchecked(dateStr, clock) == dateStr.t

\* parseDate: the parsed instant, or the current instant when the string
\* does not parse
parseDate(dateStr, clock) == IF dateStr.valid THEN dateStr.t ELSE clock

PaddingDays == 30

\* the instants getMinMaxDates collects, in order
RECURSIVE CollectedDates(_, _)
CollectedDates(its, clock) ==
    IF its = <<>> THEN <<>>
    ELSE LET item == Head(its)
             own == IF item.type = "event"
                    THEN <<parseDate(Field(item, "date"), clock)>>
                    ELSE <<parseDate(Field(item, "startDate"), clock),
                           parseDate(Field(item, "endDate"), clock)>>
         IN  own \o CollectedDates(Tail(its), clock)

\* padding = range * 0.1 || 86400000 * 30, then new Date(min - padding) and
\* new Date(max + padding), each keeping the integer part
PadRange(lo, hi) ==
    LET range == hi - lo
    IN  IF range = 0
        THEN [min |-> lo - Days(PaddingDays), max |-> hi + Days(PaddingDays)]
        ELSE [min |-> TruncDiv(10 * lo - range, 10),
              max |-> TruncDiv(10 * hi + range, 10)]

getMinMaxDates(its, clock) ==
    IF Len(its) = 0 THEN [min |-> clock, max |-> clock]
    ELSE LET dates == Range(CollectedDates(its, clock))
         IN  PadRange(SetMin(dates), SetMax(dates))

----------------------------------------------------------------------------
(* Time scale: src/components/TimelinePreview.tsx *)

GAP_COMPRESS_RATIO == 3

\* the timestamps buildCompressedScale collects
RECURSIVE ScaleTimestamps(_, _)
ScaleTimestamps(its, clock) ==
    IF its = <<>> THEN {}
    ELSE LET item == Head(its)
             own == IF item.type = "event" \/ item.type = "note"
                    THEN {parseDate(Field(item, "date"), clock)}
                    ELSE {parseDate(Field(item, "startDate"), clock),
                          parseDate(Field(item, "endDate"), clock)}
         IN  own \cup ScaleTimestamps(Tail(its), clock)

Unique(its, minDate, maxDate, clock) ==
    SetToSortedSeq({minDate, maxDate} \cup ScaleTimestamps(its, clock))

Gaps(unique) == [i \in 1..(Len(unique) - 1) |-> unique[i + 1] - unique[i]]

\* faulty variant of MedianIndex: the lower median,
\* sortedGaps[Math.floor((n - 1) / 2)]
MedianIndexLower(n) == ((n - 1) \div 2) + 1

\* sortedGaps[Math.floor(sortedGaps.length / 2)], zero-based in the source
MedianIndex(n) == (n \div 2) + 1

Median(gaps) == SortNumbers(gaps)[MedianIndex(Len(gaps))]

Threshold(gaps) == Median(gaps) * GAP_COMPRESS_RATIO

\* faulty variant of CompressedGap: the gap is added uncompressed
CompressedGapUncapped(gap, threshold) == gap

\* faulty variant of CompressedGap: a gap above the threshold adds nothing
CompressedGapDropped(gap, threshold) ==
    IF threshold > 0 /\ gap > threshold THEN 0 ELSE gap

\* what one gap adds to the cumulative compressed distance
CompressedGap(gap, threshold) ==
    IF threshold > 0 /\ gap > threshold THEN threshold ELSE gap

\* faulty variant of IsBreak: a gap equal to the threshold counts as well
IsBreakFromThreshold(gap, threshold) == threshold > 0 /\ gap >= threshold

\* the test that makes a gap a compressed one with a break marker
IsBreak(gap, threshold) == threshold > 0 /\ gap > threshold

\* compressed[0..n] of the source, one-based here: Compressed(..)[i + 1]
RECURSIVE Compressed(_, _)
Compressed(gaps, threshold) ==
    IF gaps = <<>> THEN <<0>>
    ELSE LET before == Compressed(SubSeq(gaps, 1, Len(gaps) - 1), threshold)
         IN  Append(before,
                    before[Len(before)] + CompressedGap(gaps[Len(gaps)], threshold))

\* the zero-based indices i of the gaps that are compressed, ascending
BreakIndices(gaps, threshold) ==
    SetToSortedSeq({i - 1 : i \in {j \in DOMAIN gaps : IsBreak(gaps[j], threshold)}})

\* the segment the scale closure picks for t (zero-based), unique[0] < t < last
RECURSIVE FindSegment(_, _, _, _)
FindSegment(unique, t, i, seg) ==
    IF i > Len(unique) - 2 THEN seg
    ELSE IF t >= unique[i + 1] /\ t <= unique[i + 2] THEN i
    ELSE FindSegment(unique, t, i + 1, IF t > unique[i + 1] THEN i ELSE seg)

\* faulty variant of Proportion: the pixel range is laid out from its end
\* backwards
ProportionReversed(num, den, rangeStart, rangeEnd) ==
    rangeEnd - 2 * MulDiv(num, (rangeEnd - rangeStart) \div 2, den)

\* rangeStart + (num / den) * totalRange, rounded down to 1/100 px
Proportion(num, den, rangeStart, rangeEnd) ==
    rangeStart + 2 * MulDiv(num, (rangeEnd - rangeStart) \div 2, den)

\* The scale object: what the closure returned by buildCompressedScale (or
\* the d3 linear scale) captures.
buildCompressedScale(its, minDate, maxDate, rangeStart, rangeEnd, clock) ==
    LET unique == Unique(its, minDate, maxDate, clock)
    IN  IF Len(unique) < 2
        THEN [kind |-> "constant", value |-> rangeStart, breaks |-> <<>>]
        ELSE LET gaps == Gaps(unique)
                 threshold == Threshold(gaps)
                 compressed == Compressed(gaps, threshold)
                 cum == compressed[Len(compressed)]
                 breakIndices == BreakIndices(gaps, threshold)
             IN  IF cum = 0
                 THEN [kind |-> "constant",
                       value |-> (rangeStart + rangeEnd) \div 2,
                       breaks |-> <<>>]
                 ELSE [kind |-> "compressed",
                       unique |-> unique,
                       compressed |-> compressed,
                       cum |-> cum,
                       threshold |-> threshold,
                       rangeStart |-> rangeStart,
                       rangeEnd |-> rangeEnd,
                       breaks |->
                         [k \in DOMAIN breakIndices |->
                            LET i == breakIndices[k]
                            IN  \* compMid = (compressed[i] + compressed[i+1]) / 2
                                Proportion(compressed[i + 1] + compressed[i + 2],
                                           2 * cum, rangeStart, rangeEnd)]]

LinearScale(minDate, maxDate, rangeStart, rangeEnd) ==
    [kind |-> "linear", min |-> minDate, max |-> maxDate,
     rangeStart |-> rangeStart, rangeEnd |-> rangeEnd, breaks |-> <<>>]

\* scale(d) of the compressed scale
CompressedScaleAt(sc, t) ==
    LET unique == sc.unique
        n == Len(unique)
    IN  IF t <= unique[1] THEN sc.rangeStart
        ELSE IF t >= unique[n] THEN sc.rangeEnd
        ELSE LET seg == FindSegment(unique, t, 0, 0)
                 u0 == unique[seg + 1]
                 u1 == unique[seg + 2]
                 c0 == sc.compressed[seg + 1]
                 c1 == sc.compressed[seg + 2]
                 \* compVal = c0 + frac * (c1 - c0), frac = (t - u0) / (u1 - u0)
             IN  IF u1 = u0
                 THEN Proportion(c0, sc.cum, sc.rangeStart, sc.rangeEnd)
                 ELSE Proportion(c0 * (u1 - u0) + (t - u0) * (c1 - c0),
                                 (u1 - u0) * sc.cum, sc.rangeStart, sc.rangeEnd)

\* xScale(d): pixel position of instant t
xScaleAt(sc, t) ==
    CASE sc.kind = "constant" -> sc.value
      [] sc.kind = "compressed" -> CompressedScaleAt(sc, t)
      [] sc.kind = "linear" ->
            IF sc.max = sc.min
            THEN (sc.rangeStart + sc.rangeEnd) \div 2
            ELSE Proportion(t - sc.min, sc.max - sc.min, sc.rangeStart, sc.rangeEnd)

\* the xScale / gapBreaks memo of the component
BuildScale(its, mm, rangeStart, rangeEnd, compressGaps, clock) ==
    IF compressGaps /\ Len(its) >= 2
    THEN buildCompressedScale(its, mm.min, mm.max, rangeStart, rangeEnd, clock)
    ELSE LinearScale(mm.min, mm.max, rangeStart, rangeEnd)

----------------------------------------------------------------------------
(* Compact date formatter and label geometry *)

\* faulty variant of SpanDates: the end of a period is not inspected
RECURSIVE SpanDatesStartsOnly(_, _)
SpanDatesStartsOnly(its, clock) ==
    IF its = <<>> THEN <<>>
    ELSE LET item == Head(its)
             own == IF item.type = "event" \/ item.type = "note"
                    THEN <<parseDate(Field(item, "date"), clock)>>
                    ELSE <<parseDate(Field(item, "startDate"), clock)>>
         IN  own \o SpanDatesStartsOnly(Tail(its), clock)

\* every instant detectDateSpan inspects
RECURSIVE SpanDates(_, _)
SpanDates(its, clock) ==
    IF its = <<>> THEN <<>>
    ELSE LET item == Head(its)
             own == IF item.type = "event" \/ item.type = "note"
                    THEN <<parseDate(Field(item, "date"), clock)>>
                    ELSE <<parseDate(Field(item, "startDate"), clock),
                           parseDate(Field(item, "endDate"), clock)>>
         IN  own \o SpanDates(Tail(its), clock)

detectDateSpan(its, clock) ==
    LET dates == SpanDates(its, clock)
    IN  IF Len(dates) = 0 THEN [mode |-> "full", label |-> "none"]
        ELSE IF \A i \in DOMAIN dates : DayOf(dates[i]) = DayOf(dates[1])
        THEN [mode |-> "time", label |-> "day"]
        ELSE IF \A i \in DOMAIN dates : YearOf(dates[i]) = YearOf(dates[1])
        THEN [mode |-> "monthday", label |-> "year"]
        ELSE [mode |-> "full", label |-> "none"]

\* the dateMode / dateLabel / fmt memo of the component
DateFormat(its, compactDates, clock) ==
    IF ~compactDates THEN [mode |-> "full", label |-> "none"]
    ELSE detectDateSpan(its, clock)

\* number of characters of fmt(date): "Jun 17, 2025", "Jun 17", "6:00 AM"
FmtLen(mode) ==
    CASE mode = "time" -> 7
      [] mode = "monthday" -> 6
      [] OTHER -> 12

\* estimateTextWidth(text, fontSize, bold) with text.length = len and
\* fontSize = fontPx * contentScale; s counts contentScale in halves
estimateTextWidth(len, fontPx, s, bold) ==
    len * fontPx * s * (IF bold THEN 62 ELSE 52)

\* n * contentScale pixels
Scaled(n, s) == n * s * 100

MIN_PERIOD_WIDTH == 60

Top == -1
Bottom == 1

Max3(a, b, c) == Max2(a, Max2(b, c))

----------------------------------------------------------------------------
(* Collision and placement engine: the layoutMap memo *)

\* faulty variant of actualWidth: each slide lays out the slides up to its own
actualWidthUpToSlide(cfg) ==
    IF cfg.exportMode THEN cfg.canvasWidth * (cfg.sliceIndex + 1) ELSE cfg.canvasWidth

\* actualWidth = exportMode ? canvasWidth * totalSlices : canvasWidth
actualWidth(cfg) ==
    IF cfg.exportMode THEN cfg.canvasWidth * cfg.totalSlices ELSE cfg.canvasWidth
rangeStartOf(cfg) == actualWidth(cfg) \div 10
rangeEndOf(cfg) == (actualWidth(cfg) * 9) \div 10

\* the side of the boundary snap moves a straddling label to
SnapTarget(x, hw, boundary) ==
    IF boundary - (x - hw) < (x + hw) - boundary
    THEN boundary - hw - Px(4)
    ELSE boundary + hw + Px(4)

snap(x, hw, cfg) ==
    IF ~cfg.avoidSplit \/ ~cfg.exportMode \/ cfg.totalSlices <= 1 THEN x
    ELSE LET straddled == {i \in 1..(cfg.totalSlices - 1) :
                             x - hw < i * cfg.canvasWidth /\ x + hw > i * cfg.canvasWidth}
         IN  IF straddled = {} THEN x
             ELSE SnapTarget(x, hw, SetMin(straddled) * cfg.canvasWidth)

getItemDate(item, clock) ==
    IF item.type = "event" \/ item.type = "note"
    THEN parseDate(Field(item, "date"), clock)
    ELSE parseDate(Field(item, "startDate"), clock)

\* [...items].sort((a, b) => getItemDate(a) - getItemDate(b)), a stable sort
RECURSIVE InsertByDate(_, _, _)
InsertByDate(item, s, clock) ==
    IF s = <<>> THEN <<item>>
    ELSE IF getItemDate(item, clock) < getItemDate(Head(s), clock)
    THEN <<item>> \o s
    ELSE <<Head(s)>> \o InsertByDate(item, Tail(s), clock)

RECURSIVE sortedItems(_, _)
sortedItems(its, clock) ==
    IF its = <<>> THEN <<>>
    ELSE InsertByDate(its[Len(its)],
                      sortedItems(SubSeq(its, 1, Len(its) - 1), clock), clock)

\* faulty variant of SideOfIndex: the parity test is inverted
SideOfIndexSwapped(idx) == IF idx % 2 = 0 THEN Bottom ELSE Top

SideOfIndex(idx) == IF idx % 2 = 0 THEN Top ELSE Bottom

\* faulty variant of SpanWidth: the pixel span is taken as it is
SpanWidthUnclamped(x1, x2raw, s) == x2raw - x1

\* spanW = Math.max(x2raw - x1, MIN_PERIOD_WIDTH * s)
SpanWidth(x1, x2raw, s) == Max2(x2raw - x1, Scaled(MIN_PERIOD_WIDTH, s))

\* the entry pushed for the item at zero-based index idx of sortedItems
InitialEntry(item, idx, sc, mode, cfg, clock) ==
    LET s == cfg.s
        side == SideOfIndex(idx)
    IN  IF item.type = "event" THEN
            LET rawX == xScaleAt(sc, parseDate(Field(item, "date"), clock))
                labelW == estimateTextWidth(Len(item.label), 14, s, TRUE)
                dateW == estimateTextWidth(FmtLen(mode), 11, s, FALSE)
                halfW == Max3(labelW, dateW, Scaled(100, s)) \div 2 + Scaled(12, s)
            IN  [id |-> item.id, type |-> "event", side |-> side, yExtra |-> 0,
                 rawX |-> rawX, cx |-> snap(rawX, halfW, cfg), halfW |-> halfW,
                 bandStart |-> Scaled(110, s), bandHeight |-> Scaled(55, s),
                 bar |-> FALSE, x1 |-> 0, x2 |-> 0]
        ELSE IF item.type = "period" THEN
            LET x1 == xScaleAt(sc, parseDate(Field(item, "startDate"), clock))
                x2raw == xScaleAt(sc, parseDate(Field(item, "endDate"), clock))
                spanW == SpanWidth(x1, x2raw, s)
                x2 == x1 + spanW
                labelW == estimateTextWidth(Len(item.label), 14, s, TRUE)
                dateW == estimateTextWidth(2 * FmtLen(mode) + 3, 11, s, FALSE)
                halfW == Max3(labelW, dateW, x2 - x1) \div 2 + Scaled(8, s)
            IN  [id |-> item.id, type |-> "period", side |-> Top, yExtra |-> 0,
                 rawX |-> (x1 + x2) \div 2, cx |-> (x1 + x2) \div 2, halfW |-> halfW,
                 bandStart |-> Scaled(36, s), bandHeight |-> Scaled(40, s),
                 bar |-> TRUE, x1 |-> x1, x2 |-> x2]
        ELSE
            LET rawX == xScaleAt(sc, parseDate(Field(item, "date"), clock))
                labelW == estimateTextWidth(Len(item.label), 12, s, FALSE)
                dateW == estimateTextWidth(FmtLen(mode), 9, s, FALSE)
                halfW == Max2(labelW, dateW) \div 2 + Scaled(8, s)
            IN  [id |-> item.id, type |-> "note", side |-> side, yExtra |-> 0,
                 rawX |-> rawX, cx |-> snap(rawX, halfW, cfg), halfW |-> halfW,
                 bandStart |-> IF side = Top THEN Scaled(58, s) ELSE Scaled(66, s),
                 bandHeight |-> Scaled(36, s),
                 bar |-> FALSE, x1 |-> 0, x2 |-> 0]

InitialEntries(its, sc, mode, cfg, clock) ==
    LET sorted == sortedItems(its, clock)
    IN  [k \in DOMAIN sorted |-> InitialEntry(sorted[k], k - 1, sc, mode, cfg, clock)]

\* sideEntries: the indices into entries of one side, sorted by label centre
\* (a stable sort of the filtered list)
RECURSIVE InsertByCx(_, _, _)
InsertByCx(k, order, entries) ==
    IF order = <<>> THEN <<k>>
    ELSE IF entries[k].cx < entries[Head(order)].cx THEN <<k>> \o order
    ELSE <<Head(order)>> \o InsertByCx(k, Tail(order), entries)

RECURSIVE SideOrderUpTo(_, _, _)
SideOrderUpTo(entries, sideVal, n) ==
    IF n = 0 THEN <<>>
    ELSE LET before == SideOrderUpTo(entries, sideVal, n - 1)
         IN  IF entries[n].side = sideVal
             THEN InsertByCx(n, before, entries)
             ELSE before

SideOrder(entries, sideVal) == SideOrderUpTo(entries, sideVal, Len(entries))

Overlaps(a, b) ==
    ~(a.cx + a.halfW <= b.cx - b.halfW) /\ ~(b.cx + b.halfW <= a.cx - a.halfW)

\* faulty variant of PushPast: b is pushed to the start of a's band, not
\* past its end
PushPastBandStart(a, b, s) ==
    IF ~Overlaps(a, b) THEN b.yExtra
    ELSE LET aStart == a.bandStart + a.yExtra
             bStart == b.bandStart + b.yExtra
         IN  IF bStart < aStart THEN aStart - b.bandStart + Scaled(10, s) ELSE b.yExtra

\* faulty variant of PushPast: b is pushed to the end of a's band, without
\* the gap of 10 * s
PushPastNoGap(a, b, s) ==
    IF ~Overlaps(a, b) THEN b.yExtra
    ELSE LET aEnd == a.bandStart + a.yExtra + a.bandHeight
             bStart == b.bandStart + b.yExtra
         IN  IF bStart < aEnd THEN aEnd - b.bandStart ELSE b.yExtra

\* the yExtra of b after the inner loop body has run for a
PushPast(a, b, s) ==
    IF ~Overlaps(a, b) THEN b.yExtra
    ELSE LET aEnd == a.bandStart + a.yExtra + a.bandHeight
             bStart == b.bandStart + b.yExtra
         IN  IF bStart < aEnd THEN aEnd - b.bandStart + Scaled(10, s) ELSE b.yExtra

\* faulty variant of InnerLoop: the earlier entry of the pair is the one that
\* is pushed
RECURSIVE InnerLoopPushEarlier(_, _, _, _, _)
InnerLoopPushEarlier(entries, order, i, j, s) ==
    IF j >= i THEN entries
    ELSE LET a == entries[order[j]]
             b == entries[order[i]]
             pushed == [entries EXCEPT ![order[j]].yExtra = PushPast(b, a, s)]
         IN  InnerLoopPushEarlier(pushed, order, i, j + 1, s)

\* inner loop: j = jFrom .. i - 1 for the entry at position i of the order
RECURSIVE InnerLoop(_, _, _, _, _)
InnerLoop(entries, order, i, j, s) ==
    IF j >= i THEN entries
    ELSE LET a == entries[order[j]]
             b == entries[order[i]]
             pushed == [entries EXCEPT ![order[i]].yExtra = PushPast(a, b, s)]
         IN  InnerLoop(pushed, order, i, j + 1, s)

\* outer loop: i = iFrom .. length
RECURSIVE OuterLoop(_, _, _, _)
OuterLoop(entries, order, i, s) ==
    IF i > Len(order) THEN entries
    ELSE OuterLoop(InnerLoop(entries, order, i, 1, s), order, i + 1, s)

ResolveSide(entries, sideVal, s) ==
    OuterLoop(entries, SideOrder(entries, sideVal), 1, s)

ResolveCollisions(entries, s) ==
    ResolveSide(ResolveSide(entries, Top, s), Bottom, s)

\* faulty variant of ShiftPastBar: the two targets are exchanged, the label
\* is sent to the far edge of the bar
ShiftPastBarFarEdge(ent, p, s) ==
    LET labelLeft == ent.cx - ent.halfW
        labelRight == ent.cx + ent.halfW
    IN  IF labelRight > p.x1 /\ labelLeft < p.x2 /\ (ent.rawX < p.x1 \/ ent.rawX > p.x2)
        THEN IF ent.rawX < p.x1
             THEN LET newCx == p.x2 + ent.halfW + Scaled(4, s)
                  IN  IF newCx > ent.rawX - ent.halfW * 2 THEN newCx ELSE ent.cx
             ELSE LET newCx == p.x1 - ent.halfW - Scaled(4, s)
                  IN  IF newCx < ent.rawX + ent.halfW * 2 THEN newCx ELSE ent.cx
        ELSE ent.cx

\* the label centre of ent after the period-bar loop body has run for bar p
ShiftPastBar(ent, p, s) ==
    LET labelLeft == ent.cx - ent.halfW
        labelRight == ent.cx + ent.halfW
    IN  IF labelRight > p.x1 /\ labelLeft < p.x2 /\ (ent.rawX < p.x1 \/ ent.rawX > p.x2)
        THEN IF ent.rawX < p.x1
             THEN LET newCx == p.x1 - ent.halfW - Scaled(4, s)
                  IN  IF newCx > ent.rawX - ent.halfW * 2 THEN newCx ELSE ent.cx
             ELSE LET newCx == p.x2 + ent.halfW + Scaled(4, s)
                  IN  IF newCx < ent.rawX + ent.halfW * 2 THEN newCx ELSE ent.cx
        ELSE ent.cx

\* for (const p of periodBars): the bars are the entries with x1 set, in order
RECURSIVE ShiftPastBars(_, _, _, _)
ShiftPastBars(ent, entries, k, s) ==
    IF k > Len(entries) THEN ent
    ELSE IF ~entries[k].bar THEN ShiftPastBars(ent, entries, k + 1, s)
    ELSE ShiftPastBars([ent EXCEPT !.cx = ShiftPastBar(ent, entries[k], s)],
                       entries, k + 1, s)

AvoidPeriodBars(entries, cfg) ==
    IF cfg.exportMode THEN entries
    ELSE [k \in DOMAIN entries |->
            IF entries[k].bar THEN entries[k]
            ELSE ShiftPastBars(entries[k], entries, 1, cfg.s)]

SlideOf(x, canvasWidth) == x \div canvasWidth

\* faulty variant of ReboundRawX: the marker is never moved
ReboundRawXKept(ent, cfg) == ent.rawX

\* the marker position after the rebinding loop body
ReboundRawX(ent, cfg) ==
    IF SlideOf(ent.rawX, cfg.canvasWidth) # SlideOf(ent.cx, cfg.canvasWidth)
    THEN ent.cx
    ELSE ent.rawX

BindMarkers(entries, cfg) ==
    IF cfg.exportMode /\ cfg.totalSlices > 1
    THEN [k \in DOMAIN entries |-> [entries[k] EXCEPT !.rawX = ReboundRawX(entries[k], cfg)]]
    ELSE entries

\* the entries array at the end of the layoutMap memo, in sortedItems order
LayoutEntries(its, sc, mode, cfg, clock) ==
    BindMarkers(
        AvoidPeriodBars(
            ResolveCollisions(InitialEntries(its, sc, mode, cfg, clock), cfg.s),
            cfg),
        cfg)

\* new Map(); entries.forEach(e => map.set(e.id, e.entry)): the last entry
\* set for an id is the one the map keeps
MapOf(entries) ==
    [id \in {entries[k].id : k \in DOMAIN entries} |->
        entries[SetMax({k \in DOMAIN entries : entries[k].id = id})]]

----------------------------------------------------------------------------
(* The application state that feeds the preview (src/App.tsx) and the       *)
(* memoised values of the main TimelinePreview instance                     *)

VARIABLES
    items,               \* useState<TimelineItem[]>
    exportSlices,        \* useState<number>
    showCarouselPreview, \* useState<boolean>
    compressGaps,        \* useState<boolean>
    avoidSplit,          \* useState<boolean>
    compactDates,        \* useState<boolean>
    contentScale,        \* useState<number>, in halves
    now,                 \* the wall clock new Date() reads
    minMax,              \* useMemo(() => getMinMaxDates(items), [items])
    dateFormat,          \* useMemo: dateMode / dateLabel / fmt
    scale,               \* useMemo: xScale / gapBreaks
    layoutMap,           \* useMemo: the layout map of the last render
    currentSlide,        \* useState<number>: the slide the carousel shows
    dragRef,             \* useRef: the pointer gesture in progress, or null
    isDragging,          \* useState<boolean>
    dragOffset,          \* useState<number>, in tenths of a pixel
    isExporting,         \* useState<boolean>
    exportRuns           \* the invocations of handleExport and where each stands

\* the state of the drag gesture, and of the exports
dragVars == <<dragRef, isDragging, dragOffset>>
exportVars == <<isExporting, exportRuns>>

vars == <<items, exportSlices, showCarouselPreview, compressGaps, avoidSplit,
          compactDates, contentScale, now, minMax, dateFormat, scale, layoutMap,
          currentSlide, dragRef, isDragging, dragOffset, isExporting, exportRuns>>

\* isLandscape ? 1200 : ...  -- the aspect ratio is held at a landscape one
baseWidth == Px(1200)

\* the props the main preview is rendered with: the carousel preview passes
\* exportMode, totalSlices and avoidSplit, the plain preview leaves them at
\* their defaults (false, 1, false); the main preview is the one with
\* sliceIndex 0
PropsOf(slices, carousel, compress, avoid, compact, cs) ==
    [exportMode |-> carousel,
     sliceIndex |-> 0,
     totalSlices |-> IF carousel THEN slices ELSE 1,
     canvasWidth |-> baseWidth,
     compressGaps |-> compress,
     avoidSplit |-> carousel /\ avoid,
     compactDates |-> compact,
     s |-> cs]

Props == PropsOf(exportSlices, showCarouselPreview, compressGaps, avoidSplit,
                 compactDates, contentScale)

\* the props of the i-th preview of the carousel: sliceIndex={i}
SlideProps(i) == [Props EXCEPT !.sliceIndex = i]

\* viewBox={`${sliceIndex * canvasWidth} 0 ${canvasWidth} ${canvasHeight}`}
viewBox(cfg) ==
    [minX |-> cfg.sliceIndex * cfg.canvasWidth, minY |-> 0, width |-> cfg.canvasWidth]

\* One full layout pass at one clock reading: min/max, date format, scale
\* and layout map computed from nothing but (items, configuration, clock)
LayoutPass(its, cfg, clock) ==
    LET mm == getMinMaxDates(its, clock)
        df == DateFormat(its, cfg.compactDates, clock)
        sc == BuildScale(its, mm, rangeStartOf(cfg), rangeEndOf(cfg),
                         cfg.compressGaps, clock)
    IN  [minMax |-> mm, dateFormat |-> df, scale |-> sc,
         layoutMap |-> MapOf(LayoutEntries(its, sc, df.mode, cfg, clock))]

\* A render of the preview with item list its and props cfg.  A memo is
\* recomputed when one of its dependencies changed (mounted: the instance is
\* new, nothing is memoised); the layout map is recomputed on every render,
\* because sortedItems is a new array each time.
Render(its, cfg, itemsChanged, mounted) ==
    LET old == Props
        mmNew == IF mounted \/ itemsChanged THEN getMinMaxDates(its, now) ELSE minMax
        dfNew == IF mounted \/ itemsChanged \/ cfg.compactDates # old.compactDates
                 THEN DateFormat(its, cfg.compactDates, now)
                 ELSE dateFormat
        scNew == IF \/ mounted \/ itemsChanged
                    \/ rangeStartOf(cfg) # rangeStartOf(old)
                    \/ rangeEndOf(cfg) # rangeEndOf(old)
                    \/ cfg.compressGaps # old.compressGaps
                 THEN BuildScale(its, mmNew, rangeStartOf(cfg), rangeEndOf(cfg),
                                 cfg.compressGaps, now)
                 ELSE scale
    IN  /\ minMax' = mmNew
        /\ dateFormat' = dfNew
        /\ scale' = scNew
        /\ layoutMap' = MapOf(LayoutEntries(its, scNew, dfNew.mode, cfg, now))

Label(n) == [i \in 1..n |-> "x"]

Event(id, n, d) == [id |-> id, type |-> "event", label |-> Label(n), date |-> d]
Note(id, n, d) == [id |-> id, type |-> "note", label |-> Label(n), date |-> d]
Period(id, n, d1, d2) ==
    [id |-> id, type |-> "period", label |-> Label(n), startDate |-> d1, endDate |-> d2]

----------------------------------------------------------------------------
(* Bounds and input sets *)

MaxItems == 4
MaxTicks == 1
\* the invocations of handleExport that may be in progress at once
MaxExports == 2

\* dragRef.current = null
NoDrag == [active |-> FALSE, locked |-> "null"]

\* an invocation slot that is not in use
IdleRun == [format |-> "none", pc |-> "idle", i |-> 0, slices |-> 0, emitted |-> <<>>]

\* the clock reading at start-up; the instants of the items lie around it
NowStart == Days(21)

\* new Date(str).getTime() compared with < or >: NaN compares false
ValidDate(item, f) == Field(item, f).valid

\* hasOverlappingPeriods of App
hasOverlappingPeriods(its) ==
    LET periods == {i \in DOMAIN its : its[i].type = "period"}
        points == {i \in DOMAIN its : its[i].type = "event" \/ its[i].type = "note"}
    IN  \/ \E i, j \in periods :
              /\ i < j
              /\ ValidDate(its[i], "startDate") /\ ValidDate(its[i], "endDate")
              /\ ValidDate(its[j], "startDate") /\ ValidDate(its[j], "endDate")
              /\ its[i].startDate.t < its[j].endDate.t
              /\ its[j].startDate.t < its[i].endDate.t
        \/ \E pt \in points, p \in periods :
              /\ ValidDate(its[pt], "date")
              /\ ValidDate(its[p], "startDate") /\ ValidDate(its[p], "endDate")
              /\ its[pt].date.t > its[p].startDate.t
              /\ its[pt].date.t < its[p].endDate.t

\* faulty variant of AvoidSplitAfter: the effect is missing
AvoidSplitKept(its) == avoidSplit

\* the auto-disable effect, run when hasOverlappingPeriods changes
AvoidSplitAfter(its) ==
    IF hasOverlappingPeriods(its) # hasOverlappingPeriods(items)
       /\ hasOverlappingPeriods(its) /\ avoidSplit
    THEN FALSE
    ELSE avoidSplit

Ids(its) == {its[i].id : i \in DOMAIN its}

RECURSIVE WithoutId(_, _)
WithoutId(its, id) ==
    IF its = <<>> THEN <<>>
    ELSE IF Head(its).id = id THEN WithoutId(Tail(its), id)
    ELSE <<Head(its)>> \o WithoutId(Tail(its), id)

----------------------------------------------------------------------------
(* Actions *)

\* setItems(next) followed by the effects and the render it causes
SetItems(its) ==
    /\ items' = its
    /\ avoidSplit' = AvoidSplitAfter(its)
    /\ Render(its,
              PropsOf(exportSlices, showCarouselPreview, compressGaps,
                      AvoidSplitAfter(its), compactDates, contentScale),
              TRUE, FALSE)
    /\ UNCHANGED <<exportSlices, showCarouselPreview, compressGaps, compactDates,
                   contentScale, now, currentSlide, dragVars, exportVars>>

\* the id the generator drew for the new item is not in use
FreshId(item) == item.id \notin Ids(items)

\* AddItemPanel.handleSubmit: the new item, with the id the generator drew,
\* is appended; the id is not compared with the ids in use
AddItem(item) ==
    /\ Len(items) < MaxItems
    /\ SetItems(Append(items, item))

\* String.prototype.trim on a sequence of characters
RECURSIVE TrimStart(_)
TrimStart(str) ==
    IF str # <<>> /\ Head(str) = " " THEN TrimStart(Tail(str)) ELSE str

RECURSIVE TrimEnd(_)
TrimEnd(str) ==
    IF str # <<>> /\ str[Len(str)] = " "
    THEN TrimEnd(SubSeq(str, 1, Len(str) - 1))
    ELSE str

Trim(str) == TrimEnd(TrimStart(str))

\* faulty variant of handleItemUpdate: the id test is missing
handleItemUpdateAll(its, id, label) ==
    [k \in DOMAIN its |-> [its[k] EXCEPT !.label = label]]

\* prev.map(item => item.id === id ? { ...item, ...changes } : item)
handleItemUpdate(its, id, label) ==
    [k \in DOMAIN its |->
        IF its[k].id = id THEN [its[k] EXCEPT !.label = label] ELSE its[k]]

\* commitEdit of the preview, the inline editor holding editingId and
\* editValue (startEdit was called from the label of a displayed item):
\* a non-blank value is trimmed and handed to handleItemUpdate, and the
\* editor closes either way
commitEdit(editingId, editValue) ==
    /\ editingId \in Ids(items)
    /\ IF Trim(editValue) # <<>>
       THEN SetItems(handleItemUpdate(items, editingId, Trim(editValue)))
       ELSE /\ UNCHANGED <<items, exportSlices, showCarouselPreview, compressGaps,
                           avoidSplit, compactDates, contentScale, now,
                           currentSlide, dragVars, exportVars>>
            /\ Render(items, Props, FALSE, FALSE)

\* AddItemPanel.applyJson: the list is replaced by the items of the JSON
\* editor, each with a newly drawn id
applyJson(newItems) ==
    /\ newItems # items
    /\ SetItems(newItems)

\* handleItemDelete
DeleteItem(id) ==
    /\ id \in Ids(items)
    /\ SetItems(WithoutId(items, id))

\* the carousel switch of the control panel: the preview is replaced by the
\* other kind of preview, a new component instance, and the effect on
\* [exportSlices, showCarouselPreview] puts the carousel back on its first slide
ToggleCarouselPreview ==
    /\ showCarouselPreview' = ~showCarouselPreview
    /\ currentSlide' = 0
    /\ Render(items,
              PropsOf(exportSlices, ~showCarouselPreview, compressGaps, avoidSplit,
                      compactDates, contentScale),
              FALSE, TRUE)
    /\ UNCHANGED <<items, exportSlices, compressGaps, avoidSplit, compactDates,
                   contentScale, now, dragVars, exportVars>>

\* the "No duck left behind" checkbox, disabled while periods overlap
ToggleAvoidSplit ==
    /\ ~hasOverlappingPeriods(items)
    /\ avoidSplit' = ~avoidSplit
    /\ Render(items,
              PropsOf(exportSlices, showCarouselPreview, compressGaps, ~avoidSplit,
                      compactDates, contentScale),
              FALSE, FALSE)
    /\ UNCHANGED <<items, exportSlices, showCarouselPreview, compressGaps,
                   compactDates, contentScale, now, currentSlide, dragVars, exportVars>>

ToggleCompressGaps ==
    /\ compressGaps' = ~compressGaps
    /\ Render(items,
              PropsOf(exportSlices, showCarouselPreview, ~compressGaps, avoidSplit,
                      compactDates, contentScale),
              FALSE, FALSE)
    /\ UNCHANGED <<items, exportSlices, showCarouselPreview, avoidSplit,
                   compactDates, contentScale, now, currentSlide, dragVars, exportVars>>

ToggleCompactDates ==
    /\ compactDates' = ~compactDates
    /\ Render(items,
              PropsOf(exportSlices, showCarouselPreview, compressGaps, avoidSplit,
                      ~compactDates, contentScale),
              FALSE, FALSE)
    /\ UNCHANGED <<items, exportSlices, showCarouselPreview, compressGaps,
                   avoidSplit, contentScale, now, currentSlide, dragVars, exportVars>>

\* the slide-count slider (1..10); the effect on
\* [exportSlices, showCarouselPreview] puts the carousel back on its first slide
SetExportSlices(n) ==
    /\ n # exportSlices
    /\ exportSlices' = n
    /\ currentSlide' = 0
    /\ Render(items,
              PropsOf(n, showCarouselPreview, compressGaps, avoidSplit,
                      compactDates, contentScale),
              FALSE, FALSE)
    /\ UNCHANGED <<items, showCarouselPreview, compressGaps, avoidSplit,
                   compactDates, contentScale, now, dragVars, exportVars>>

\* the content-size slider (0.5 .. 2.0)
SetContentScale(cs) ==
    /\ cs # contentScale
    /\ contentScale' = cs
    /\ Render(items,
              PropsOf(exportSlices, showCarouselPreview, compressGaps, avoidSplit,
                      compactDates, cs),
              FALSE, FALSE)
    /\ UNCHANGED <<items, exportSlices, showCarouselPreview, compressGaps,
                   avoidSplit, compactDates, now, currentSlide, dragVars, exportVars>>

\* time passes
Tick ==
    /\ now < NowStart + MaxTicks
    /\ now' = now + 1
    /\ UNCHANGED <<items, exportSlices, showCarouselPreview, compressGaps, avoidSplit,
                   compactDates, contentScale, minMax, dateFormat, scale, layoutMap,
                   currentSlide, dragVars, exportVars>>

\* a render caused by state the layout does not depend on (zoom, theme, the
\* inline editor): items and props are what they were
Rerender ==
    /\ Render(items, Props, FALSE, FALSE)
    /\ UNCHANGED <<items, exportSlices, showCarouselPreview, compressGaps, avoidSplit,
                   compactDates, contentScale, now, currentSlide, dragVars, exportVars>>

\* everything the settings panel and the item handlers own
appVars == <<items, exportSlices, showCarouselPreview, compressGaps, avoidSplit,
             compactDates, contentScale, now>>

\* previewAreaRef.current.clientWidth, in pixels
clientWidth == 1000

\* threshold = container.clientWidth * 0.2, in tenths of a pixel
DragThreshold == clientWidth * 2

\* the "previous slide" button, rendered in carousel mode while no drag is
\* shown and disabled on the first slide
PrevSlide ==
    /\ showCarouselPreview /\ ~isDragging
    /\ currentSlide # 0
    /\ currentSlide' = Max2(0, currentSlide - 1)
    /\ Render(items, Props, FALSE, FALSE)
    /\ UNCHANGED <<appVars, dragVars, exportVars>>

\* the "next slide" button, disabled on the last slide
NextSlide ==
    /\ showCarouselPreview /\ ~isDragging
    /\ currentSlide # exportSlices - 1
    /\ currentSlide' = Min2(exportSlices - 1, currentSlide + 1)
    /\ Render(items, Props, FALSE, FALSE)
    /\ UNCHANGED <<appVars, dragVars, exportVars>>

\* one of the exportSlices dots under the carousel
DotClick(i) ==
    /\ showCarouselPreview
    /\ i \in 0..(exportSlices - 1)
    /\ i # currentSlide
    /\ currentSlide' = i
    /\ Render(items, Props, FALSE, FALSE)
    /\ UNCHANGED <<appVars, dragVars, exportVars>>

handlePointerDown ==
    /\ showCarouselPreview
    /\ dragRef' = [active |-> TRUE, locked |-> "null"]
    /\ isDragging' = FALSE
    /\ dragOffset' = 0
    /\ Render(items, Props, FALSE, FALSE)
    /\ UNCHANGED <<appVars, currentSlide, exportVars>>

\* the direction the gesture is locked to after this move: decided once,
\* after 10 px of movement, horizontal when |dx| > |dy|
LockAfter(locked, dx, dy) ==
    IF locked = "null" /\ (Abs(dx) > 10 \/ Abs(dy) > 10)
    THEN IF Abs(dx) > Abs(dy) THEN "horizontal" ELSE "vertical"
    ELSE locked

\* the offset shown for a horizontal movement of dx pixels, in tenths of a
\* pixel: dx, or dx * 0.3 when pulling outwards on the first or last slide
RubberBand(dx, slide, slices) ==
    IF (slide = 0 /\ dx > 0) \/ (slide = slices - 1 /\ dx < 0)
    THEN dx * 3
    ELSE dx * 10

\* dx, dy: the movement since the pointer went down
handlePointerMove(dx, dy) ==
    /\ dragRef.active
    /\ dragRef' = [dragRef EXCEPT !.locked = LockAfter(dragRef.locked, dx, dy)]
    /\ IF dragRef'.locked # "horizontal"
       THEN UNCHANGED <<isDragging, dragOffset, minMax, dateFormat, scale, layoutMap>>
       ELSE /\ isDragging' = TRUE
            /\ dragOffset' = RubberBand(dx, currentSlide, exportSlices)
            /\ Render(items, Props, FALSE, FALSE)
    /\ UNCHANGED <<appVars, currentSlide, exportVars>>

\* faulty variant of SlideAfterRelease: the tests on the first and the last
\* slide are missing
SlideAfterReleaseUnbounded(slide, offset, slices) ==
    IF offset < -DragThreshold THEN slide + 1
    ELSE IF offset > DragThreshold THEN slide - 1
    ELSE slide

\* the slide shown after a drag is released at this offset
SlideAfterRelease(slide, offset, slices) ==
    IF offset < -DragThreshold /\ slide < slices - 1 THEN slide + 1
    ELSE IF offset > DragThreshold /\ slide > 0 THEN slide - 1
    ELSE slide

handlePointerUp ==
    /\ dragRef.active
    /\ dragRef' = NoDrag
    /\ currentSlide' = IF isDragging
                       THEN SlideAfterRelease(currentSlide, dragOffset, exportSlices)
                       ELSE currentSlide
    /\ dragOffset' = 0
    /\ isDragging' = FALSE
    /\ Render(items, Props, FALSE, FALSE)
    /\ UNCHANGED <<appVars, exportVars>>

handlePointerCancel ==
    /\ dragRef.active
    /\ dragRef' = NoDrag
    /\ dragOffset' = 0
    /\ isDragging' = FALSE
    /\ Render(items, Props, FALSE, FALSE)
    /\ UNCHANGED <<appVars, currentSlide, exportVars>>

\* Exporting.  Each invocation of handleExport is an async function of its
\* own; exportRuns holds the invocations that have not finished yet, with
\* the point each one is waiting at:
\*   "loading"  img.src is set, the onload callback has not run
\*   "failed"   the image did not load: onload never runs, and the promise
\*              has no other way to resolve
\*   "pause"    the 300 ms wait after a slide
\*   "timer"    the 500 ms timer that clears isExporting is pending
\* slices is the exportSlices of the render the handler was created in, i the
\* loop variable, emitted the numbers of the files handed to the browser so
\* far (slide i is timeline-slide-(i+1); 0 stands for the single svg or png
\* file).
ExportFormats == {"svg", "png", "carousel"}

FreeRuns == {r \in 1..MaxExports : exportRuns[r].pc = "idle"}

\* the invocations that are still producing files
Generating == {r \in 1..MaxExports : exportRuns[r].pc \in {"loading", "failed", "pause"}}

\* the re-render that follows a change of the isExporting state
RenderIfExporting(changed) ==
    IF changed
    THEN Render(items, Props, FALSE, FALSE)
    ELSE UNCHANGED <<minMax, dateFormat, scale, layoutMap>>

\* One of the three download buttons of the control panel.  The buttons stay
\* enabled during an export (the overlay covers the preview area only), so a
\* new invocation can start while earlier ones are waiting.  Both previews
\* always hold an <svg> element, so the branches for a missing element are
\* never taken.
handleExport(format) ==
    /\ FreeRuns # {}
    /\ LET r == CHOOSE q \in FreeRuns : \A o \in FreeRuns : q <= o
       IN  exportRuns' = [exportRuns EXCEPT ![r] =
              IF format = "svg"
              THEN [format |-> format, pc |-> "timer", i |-> 0, slices |-> 1,
                    emitted |-> <<0>>]
              ELSE [format |-> format, pc |-> "loading", i |-> 0,
                    slices |-> IF format = "carousel" THEN exportSlices ELSE 1,
                    emitted |-> <<>>]]
    /\ isExporting' = TRUE
    /\ RenderIfExporting(~isExporting)
    /\ UNCHANGED <<appVars, currentSlide, dragVars>>

\* img.onload of invocation r: the image is drawn on a canvas and the file is
\* downloaded; the carousel loop goes on to its 300 ms wait, the png branch
\* falls through to the final setTimeout
ImageLoaded(r) ==
    /\ exportRuns[r].pc = "loading"
    /\ exportRuns' = [exportRuns EXCEPT ![r] =
          [@ EXCEPT !.emitted = Append(@, IF exportRuns[r].format = "carousel"
                                          THEN exportRuns[r].i + 1 ELSE 0),
                    !.pc = IF exportRuns[r].format = "carousel"
                           THEN "pause" ELSE "timer"]]
    /\ UNCHANGED <<appVars, currentSlide, dragVars, isExporting,
                   minMax, dateFormat, scale, layoutMap>>

\* the image of invocation r does not load: there is no onerror handler, the
\* awaited promise stays pending
ImageFails(r) ==
    /\ exportRuns[r].pc = "loading"
    /\ exportRuns' = [exportRuns EXCEPT ![r].pc = "failed"]
    /\ UNCHANGED <<appVars, currentSlide, dragVars, isExporting,
                   minMax, dateFormat, scale, layoutMap>>

\* the 300 ms wait of invocation r is over: the next iteration of the loop,
\* or the final setTimeout after the last slide
PauseOver(r) ==
    /\ exportRuns[r].pc = "pause"
    /\ exportRuns' = [exportRuns EXCEPT ![r] =
          IF exportRuns[r].i + 1 < exportRuns[r].slices
          THEN [@ EXCEPT !.i = @ + 1, !.pc = "loading"]
          ELSE [@ EXCEPT !.i = @ + 1, !.pc = "timer"]]
    /\ UNCHANGED <<appVars, currentSlide, dragVars, isExporting,
                   minMax, dateFormat, scale, layoutMap>>

\* the 500 ms timer of invocation r: setIsExporting(false)
TimerFires(r) ==
    /\ exportRuns[r].pc = "timer"
    /\ exportRuns' = [exportRuns EXCEPT ![r] = IdleRun]
    /\ isExporting' = FALSE
    /\ RenderIfExporting(isExporting)
    /\ UNCHANGED <<appVars, currentSlide, dragVars>>

\* The state after construction: the stored item list, the default settings,
\* and the first render
InitWith(stored) ==
    /\ items \in stored
    /\ exportSlices = 3
    /\ showCarouselPreview = TRUE
    /\ compressGaps = FALSE
    /\ avoidSplit = FALSE
    /\ compactDates = TRUE
    /\ contentScale = 2
    /\ now = NowStart
    /\ currentSlide = 0
    /\ dragRef = NoDrag
    /\ isDragging = FALSE
    /\ dragOffset = 0
    /\ isExporting = FALSE
    /\ exportRuns = [r \in 1..MaxExports |-> IdleRun]
    /\ LET first == LayoutPass(items,
                               PropsOf(3, TRUE, FALSE, FALSE, TRUE, 2), NowStart)
       IN  /\ minMax = first.minMax
           /\ dateFormat = first.dateFormat
           /\ scale = first.scale
           /\ layoutMap = first.layoutMap

----------------------------------------------------------------------------
(* Specifications: the same program over several families of item lists *)

\* Labels crowding each other and a period bar: two events and a note at the
\* same instant, an event just before a period, an unparseable date
LayoutItems ==
    {Event(1, 5, DateStr(0)), Event(2, 5, DateStr(0)), Event(3, 5, DateStr(7)),
     Period(4, 5, DateStr(9), DateStr(40)), Note(5, 5, DateStr(0)),
     Event(6, 5, BadDateStr)}

\* Labels near the seam between the first and the second of three slides
SeamItems ==
    {Event(1, 5, DateStr(0)), Event(2, 5, DateStr(9)), Event(3, 5, DateStr(11)),
     Event(4, 5, DateStr(40)), Period(5, 5, DateStr(9), DateStr(40)),
     Note(6, 30, DateStr(9))}

\* Instants with short and long gaps between them
GapItems ==
    {Event(1, 5, DateStr(0)), Event(2, 5, DateStr(1)), Event(3, 5, DateStr(7)),
     Event(4, 5, DateStr(40)), Note(5, 5, DateStr(60)),
     Period(6, 5, DateStr(2), DateStr(7))}

Stored(catalogue) == {<<item>> : item \in catalogue}

Init == InitWith(Stored(LayoutItems))

Next ==
    \/ \E item \in LayoutItems : FreshId(item) /\ AddItem(item)
    \/ \E id \in Ids(items) : DeleteItem(id)
    \/ ToggleCarouselPreview
    \/ ToggleCompactDates
    \/ Tick
    \/ Rerender

Spec == Init /\ [][Next]_vars

\* lists the JSON editor replaces the item list with: one with an event
\* inside a period, one without periods
SeamLists ==
    {<<Period(5, 5, DateStr(9), DateStr(40)), Event(3, 5, DateStr(11))>>,
     <<Event(1, 5, DateStr(0)), Event(4, 5, DateStr(40))>>}

InitSeam == InitWith(Stored(SeamItems))

NextSeam ==
    \/ \E item \in SeamItems : FreshId(item) /\ AddItem(item)
    \/ \E id \in Ids(items) : DeleteItem(id)
    \/ ToggleAvoidSplit
    \/ \E n \in {1, 3} : SetExportSlices(n)
    \/ \E cs \in {2, 3} : SetContentScale(cs)
    \/ \E its \in SeamLists : applyJson(its)

SpecSeam == InitSeam /\ [][NextSeam]_vars

\* lists the JSON editor replaces the item list with: eight instants with
\* gaps of 1, 1, 1, 1, 1, 3 and 92 ticks, two events at one instant, and two
\* notes at one instant
GapLists ==
    {<<Period(1, 5, DateStr(0), DateStr(1)), Period(2, 5, DateStr(2), DateStr(3)),
       Period(3, 5, DateStr(4), DateStr(5)), Period(4, 5, DateStr(8), DateStr(100))>>,
     <<Event(1, 5, DateStr(7)), Event(2, 5, DateStr(7))>>,
     <<Note(1, 5, DateStr(7)), Note(2, 5, DateStr(7))>>}

InitGaps == InitWith(Stored(GapItems))

NextGaps ==
    \/ \E item \in GapItems : FreshId(item) /\ AddItem(item)
    \/ \E id \in Ids(items) : DeleteItem(id)
    \/ ToggleCompressGaps
    \/ ToggleCarouselPreview
    \/ \E its \in GapLists : applyJson(its)

SpecGaps == InitGaps /\ [][NextGaps]_vars

\* Two period bars with a narrow gap between them, and events and a note in
\* and around the gap
BarItems ==
    {Period(1, 5, DateStr(0), DateStr(20)), Period(2, 5, DateStr(22), DateStr(40)),
     Event(3, 5, DateStr(21)), Event(4, 5, DateStr(41)), Note(5, 30, DateStr(21)),
     Event(6, 5, DateStr(10))}

InitBars == InitWith(Stored(BarItems))

NextBars ==
    \/ \E item \in BarItems : FreshId(item) /\ AddItem(item)
    \/ \E id \in Ids(items) : DeleteItem(id)
    \/ ToggleCarouselPreview
    \/ \E cs \in {1, 2} : SetContentScale(cs)

SpecBars == InitBars /\ [][NextBars]_vars

\* Irregular input: two items the generator gave the same id, a period that
\* ends before it starts, items of one day, of one year and of another year
OddItems ==
    {Event(1, 5, DateStr(0)), Event(1, 8, DateStr(1)),
     Period(2, 5, DateStr(30), DateStr(10)), Event(4, 5, DateStr(800)),
     Period(5, 5, DateStr(0), DateStr(3))}

\* what is typed into the inline editor, and the labels it is opened on
EditValues == {<<" ", " ">>, <<" ", "x", "x", " ">>}
EditIds == {1, 2}

InitOdd == InitWith(Stored(OddItems))

NextOdd ==
    \/ \E item \in OddItems : AddItem(item)
    \/ \E id \in Ids(items) : DeleteItem(id)
    \/ \E id \in EditIds, v \in EditValues : commitEdit(id, v)

SpecOdd == InitOdd /\ [][NextOdd]_vars

\* Stored lists with labels stacking up: three events of one side a few
\* pixels apart, three events of one side overlapping in a chain, and a
\* period, a long note and an event on the same side
StackLists ==
    {<<Event(1, 5, DateStr(0)), Event(2, 5, DateStr(1)), Event(3, 5, DateStr(2)),
       Event(4, 5, DateStr(3)), Event(5, 5, DateStr(4)), Event(6, 5, DateStr(400))>>,
     <<Event(1, 5, DateStr(0)), Event(2, 5, DateStr(1)), Event(3, 5, DateStr(45)),
       Event(4, 5, DateStr(46)), Event(5, 5, DateStr(90)), Event(6, 5, DateStr(400))>>,
     <<Period(1, 5, DateStr(0), DateStr(40)), Event(2, 5, DateStr(1)),
       Note(3, 30, DateStr(2)), Event(4, 5, DateStr(3)), Event(5, 5, DateStr(400))>>}

InitStack == InitWith(StackLists)

NextStack ==
    \/ \E its \in StackLists : applyJson(its)
    \/ \E id \in Ids(items) : DeleteItem(id)
    \/ ToggleCarouselPreview
    \/ \E cs \in {2, 3} : SetContentScale(cs)

SpecStack == InitStack /\ [][NextStack]_vars

\* Paging through the carousel: horizontal movements short of and beyond the
\* release threshold (also after the rubber band), and a vertical one
DragDx == {-700, -300, -5, 300, 700}
DragDy == {0, 900}

InitSlides == InitWith({<<Event(1, 5, DateStr(0))>>})

NextSlides ==
    \/ PrevSlide
    \/ NextSlide
    \/ \E i \in 0..2 : DotClick(i)
    \/ handlePointerDown
    \/ \E dx \in DragDx, dy \in DragDy : handlePointerMove(dx, dy)
    \/ handlePointerUp
    \/ handlePointerCancel
    \/ \E n \in 1..3 : SetExportSlices(n)
    \/ ToggleCarouselPreview

SpecSlides == InitSlides /\ [][NextSlides]_vars

\* Exporting, with up to MaxExports invocations under way and the slice
\* count changed in between
InitExport == InitWith({<<Event(1, 5, DateStr(0))>>})

NextExport ==
    \/ \E format \in ExportFormats : handleExport(format)
    \/ \E r \in 1..MaxExports : ImageLoaded(r)
    \/ \E r \in 1..MaxExports : ImageFails(r)
    \/ \E r \in 1..MaxExports : PauseOver(r)
    \/ \E r \in 1..MaxExports : TimerFires(r)
    \/ \E n \in 1..2 : SetExportSlices(n)

SpecExport == InitExport /\ [][NextExport]_vars

\* The same, with the browser's scheduling: a timer that was set fires, and
\* an image whose src was set either loads or fails
SpecExportLive ==
    /\ SpecExport
    /\ \A r \in 1..MaxExports :
          /\ WF_vars(PauseOver(r))
          /\ WF_vars(TimerFires(r))
          /\ WF_vars(ImageLoaded(r) \/ ImageFails(r))

----------------------------------------------------------------------------
(* Properties *)

EntryIds == DOMAIN layoutMap

BandLo(e) == e.bandStart + e.yExtra
BandHi(e) == e.bandStart + e.yExtra + e.bandHeight

\* the band of the entry later in label-centre order starts at or after the
\* end of the band of the earlier one
BandsClear(a, b) ==
    IF a.cx < b.cx THEN BandLo(b) >= BandHi(a)
    ELSE IF b.cx < a.cx THEN BandLo(a) >= BandHi(b)
    ELSE BandLo(b) >= BandHi(a) \/ BandLo(a) >= BandHi(b)

\* two different entries of the map on the same side whose final label
\* intervals overlap horizontally
Crowded(i, j) ==
    /\ i # j
    /\ layoutMap[i].side = layoutMap[j].side
    /\ Overlaps(layoutMap[i], layoutMap[j])

\* C1 as claimed: in the final layout map, export mode or not, any two entries
\* on the same side whose label intervals overlap horizontally have disjoint
\* vertical bands, the later in label-centre order starting at or after the
\* end of the earlier.
C1_NoIntraSideOverlap ==
    \A i, j \in EntryIds : Crowded(i, j) => BandsClear(layoutMap[i], layoutMap[j])

\* the label centre is where collision resolution saw it: period-bar
\* avoidance did not move it afterwards
Unshifted(e) == Props.exportMode \/ e.cx = e.rawX

\* C1 amended: the bands of two same-side entries whose label intervals
\* overlap are disjoint whenever neither label centre was moved by period-bar
\* avoidance, which covers every pair of entries in export mode.
C1_NoOverlapUnlessShifted ==
    \A i, j \in EntryIds :
        (Crowded(i, j) /\ Unshifted(layoutMap[i]) /\ Unshifted(layoutMap[j]))
            => BandsClear(layoutMap[i], layoutMap[j])

\* C1 witness: two overlapping labels of one side, one of them pushed out
C1_Witness ==
    \E i, j \in EntryIds :
        /\ Crowded(i, j) /\ Unshifted(layoutMap[i]) /\ Unshifted(layoutMap[j])
        /\ layoutMap[i].yExtra = 0 /\ layoutMap[j].yExtra > 0

\* the point items (events and notes) of the list, by position
PointItems == {k \in DOMAIN items : items[k].type = "event" \/ items[k].type = "note"}

\* the instant of the point item at position k, and the pixel position the
\* time scale gives it
InstantOf(k) == parseDate(Field(items[k], "date"), now)
ScaledX(k) == xScaleAt(scale, InstantOf(k))

SnapActive == Props.avoidSplit /\ Props.exportMode /\ Props.totalSlices > 1

\* the slide boundaries strictly inside [x - hw, x + hw]
Straddled(x, hw) ==
    {i \in 1..(Props.totalSlices - 1) :
        x - hw < i * Props.canvasWidth /\ x + hw > i * Props.canvasWidth}

\* C2 as claimed: with snapping active, an event or note label whose interval
\* strictly contains a slide boundary b is centred on the side of b that takes
\* the smaller displacement from x, and its interval then lies entirely on one
\* side of b, at least 4 px away from it.
C2_SnapSmallerDisplacement ==
    SnapActive =>
        \A k \in PointItems :
            LET e == layoutMap[items[k].id]
                x == ScaledX(k)
                hw == e.halfW
            IN  Straddled(x, hw) # {} =>
                    LET b == SetMin(Straddled(x, hw)) * Props.canvasWidth
                        toLeft == x - (b - hw - Px(4))
                        toRight == (b + hw + Px(4)) - x
                    IN  /\ Abs(e.cx - x) = Min2(toLeft, toRight)
                        /\ e.cx + hw <= b - Px(4) \/ e.cx - hw >= b + Px(4)

\* C3 as claimed: two independent layout passes over the same item list and
\* configuration, one at start-up time and one now, give the same layout map,
\* the same gap breaks and the same date-span mode.
C3_Deterministic ==
    LET first == LayoutPass(items, Props, NowStart)
        again == LayoutPass(items, Props, now)
    IN  /\ first.layoutMap = again.layoutMap
        /\ first.scale.breaks = again.scale.breaks
        /\ first.dateFormat = again.dateFormat

\* every instant of the item list: event and note dates, period starts and ends
AllInstants ==
    UNION {IF items[k].type = "period"
           THEN {parseDate(Field(items[k], "startDate"), now),
                 parseDate(Field(items[k], "endDate"), now)}
           ELSE {parseDate(Field(items[k], "date"), now)} : k \in DOMAIN items}

\* C4: the time scale in use, linear or gap-compressed, is order-preserving
\* over the items' instants and the two ends of the domain.
C4_ScaleOrderPreserving ==
    \A t1, t2 \in AllInstants \cup {minMax.min, minMax.max} :
        t1 < t2 => xScaleAt(scale, t1) <= xScaleAt(scale, t2)

\* C4 witness: a compressed scale with a break, and three instants of the
\* list at three different pixel positions
C4_Witness ==
    /\ scale.kind = "compressed" /\ Len(scale.breaks) > 0
    /\ \E t1, t2, t3 \in AllInstants :
          /\ xScaleAt(scale, t1) < xScaleAt(scale, t2)
          /\ xScaleAt(scale, t2) < xScaleAt(scale, t3)

\* C5 as claimed: in the final layout map rawX is monotonic in time over the
\* point items, in every mode.
C5_RawXMonotonic ==
    \A k1, k2 \in PointItems :
        InstantOf(k1) < InstantOf(k2)
            => layoutMap[items[k1].id].rawX <= layoutMap[items[k2].id].rawX

\* C6: in export mode with more than one slide, marker and label centre of
\* every entry are on the same slide.
C6_MarkerOnLabelSlide ==
    (Props.exportMode /\ Props.totalSlices > 1) =>
        \A id \in EntryIds :
            SlideOf(layoutMap[id].rawX, Props.canvasWidth)
                = SlideOf(layoutMap[id].cx, Props.canvasWidth)

\* C6 witness: snapping moved a label to another slide than the one the time
\* scale puts its marker on
C6_Witness ==
    /\ SnapActive
    /\ \E k \in PointItems :
          SlideOf(ScaledX(k), Props.canvasWidth)
              # SlideOf(layoutMap[items[k].id].cx, Props.canvasWidth)

\* C7: in the compressed scale every gap adds min(gap, threshold) to the
\* cumulative distance: a gap above the threshold adds exactly the threshold,
\* any other gap its own length; gaps 1,1,1,100 give 1,2,3,6.
C7_CumulativeIsCappedSum ==
    /\ scale.kind = "compressed" =>
          LET gaps == Gaps(scale.unique)
          IN  /\ Len(scale.compressed) = Len(gaps) + 1
              /\ scale.compressed[1] = 0
              /\ \A i \in DOMAIN gaps :
                    scale.compressed[i + 1] - scale.compressed[i]
                        = Min2(gaps[i], scale.threshold)
              /\ scale.cum = scale.compressed[Len(gaps) + 1]
    /\ Compressed(<<1, 1, 1, 100>>, Threshold(<<1, 1, 1, 100>>)) = <<0, 1, 2, 3, 6>>

\* C7 witness: a compressed scale with a gap above the threshold and a gap
\* below it
C7_Witness ==
    /\ scale.kind = "compressed"
    /\ \E i, j \in DOMAIN Gaps(scale.unique) :
          /\ Gaps(scale.unique)[i] > scale.threshold
          /\ Gaps(scale.unique)[j] < scale.threshold

\* m is the upper median of the gaps: the element at zero-based index
\* floor(n / 2) of the ascending order
IsUpperMedian(m, gaps) ==
    /\ \E i \in DOMAIN gaps : gaps[i] = m
    /\ Cardinality({i \in DOMAIN gaps : gaps[i] < m}) <= Len(gaps) \div 2
    /\ Cardinality({i \in DOMAIN gaps : gaps[i] <= m}) > Len(gaps) \div 2

IsAscending(seq) == \A i \in 1..(Len(seq) - 1) : seq[i] < seq[i + 1]

\* C8: the timestamps of the compressed scale are the distinct instants of
\* the items and the two ends of the domain, ascending, and the threshold is
\* three times the upper median of the gaps between them.
C8_ThresholdIsThriceUpperMedian ==
    scale.kind = "compressed" =>
        /\ Range(scale.unique) = AllInstants \cup {minMax.min, minMax.max}
        /\ IsAscending(scale.unique)
        /\ \E m \in Range(Gaps(scale.unique)) :
              /\ IsUpperMedian(m, Gaps(scale.unique))
              /\ scale.threshold = 3 * m

\* C8 witness: an even number of gaps whose two middle elements differ
C8_Witness ==
    /\ scale.kind = "compressed"
    /\ LET gaps == Gaps(scale.unique)
           sorted == SortNumbers(gaps)
       IN  /\ Len(gaps) % 2 = 0
           /\ sorted[Len(gaps) \div 2] < sorted[Len(gaps) \div 2 + 1]

\* C9 as claimed: the domain is the padded span from the earliest to the
\* latest of all instants of the list, the notes' dates included.
C9_RangeOverAllInstants ==
    items # <<>> => minMax = PadRange(SetMin(AllInstants), SetMax(AllInstants))

\* C10 as claimed: for a non-empty list min = earliest - pad and
\* max = latest + pad with pad a tenth of the span, or 30 days when the span
\* is zero (a pad that is no whole number of ticks is met to within one
\* tick), so max > min; for the empty list min = max.
C10_SymmetricPadding ==
    IF items = <<>> THEN minMax.min = minMax.max
    ELSE LET earliest == SetMin(AllInstants)
             latest == SetMax(AllInstants)
             span == latest - earliest
         IN  /\ minMax.max > minMax.min
             /\ IF span = 0
                THEN /\ earliest - minMax.min = Days(30)
                     /\ minMax.max - latest = Days(30)
                ELSE /\ Abs(10 * (earliest - minMax.min) - span) < 10
                     /\ Abs(10 * (minMax.max - latest) - span) < 10

\* the positions in the list of the events and notes whose date does not parse
BadDated ==
    {k \in PointItems : ~Field(items[k], "date").valid}

\* C11: a date string that does not parse is read as the current instant and
\* aborts nothing: the layout map has an entry of the right type for every
\* item of the list, and the marker of an item with an unparseable date sits
\* where the time scale puts an instant the clock showed (or on its snapped
\* label centre).
C11_BadDateFailsSoft ==
    /\ \A k \in DOMAIN items :
          /\ items[k].id \in EntryIds
          /\ layoutMap[items[k].id].type = items[k].type
    /\ \A k \in BadDated :
          \E c \in NowStart..now :
              LET e == layoutMap[items[k].id]
                  x == xScaleAt(scale, c)
              IN  e.rawX = x \/ e.rawX = snap(x, e.halfW, Props)

\* C11 witness: an item with an unparseable date laid out among others
C11_Witness ==
    /\ BadDated # {}
    /\ Len(items) >= 3
    /\ \A k \in DOMAIN items : items[k].id \in EntryIds

\* the primary instant of the item at position k: its date, or its start
PrimaryInstant(k) ==
    IF items[k].type = "period"
    THEN parseDate(Field(items[k], "startDate"), now)
    ELSE parseDate(Field(items[k], "date"), now)

\* the zero-based index of the item at position k in ascending order of
\* primary instant, items with equal instants keeping their list order
RankOf(k) ==
    Cardinality({j \in DOMAIN items :
                    \/ PrimaryInstant(j) < PrimaryInstant(k)
                    \/ PrimaryInstant(j) = PrimaryInstant(k) /\ j < k})

\* C12: a period is on side Top; an event or note is on side Top when its
\* index in the order of primary instants is even and on side Bottom when
\* it is odd, periods being counted in that index.
C12_SideByParity ==
    \A k \in DOMAIN items :
        layoutMap[items[k].id].side =
            IF items[k].type = "period" THEN Top
            ELSE IF RankOf(k) % 2 = 0 THEN Top ELSE Bottom

\* C12 witness: a period at an odd index, pinned to Top, and the item right
\* after it on Top as well because the period consumed the odd index
C12_Witness ==
    \E p, k \in DOMAIN items :
        /\ items[p].type = "period" /\ RankOf(p) % 2 = 1
        /\ items[k].type # "period" /\ RankOf(k) = RankOf(p) + 1
        /\ layoutMap[items[p].id].side = Top
        /\ layoutMap[items[k].id].side = Top

\* the band start the source defines for an item type
BandStartsOf(type) ==
    CASE type = "event" -> {Scaled(110, Props.s)}
      [] type = "period" -> {Scaled(36, Props.s)}
      [] OTHER -> {Scaled(58, Props.s), Scaled(66, Props.s)}

\* looking up the id of the item at position k gives the entry computed for
\* that item: its type, its type's band, and the position the time scale
\* gives its own instant
OwnEntry(k) ==
    /\ items[k].id \in EntryIds
    /\ LET e == layoutMap[items[k].id]
       IN  /\ e.type = items[k].type
           /\ e.bandStart \in BandStartsOf(items[k].type)
           /\ IF items[k].type = "period"
              THEN e.x1 = xScaleAt(scale, PrimaryInstant(k))
              ELSE SnapActive \/ e.rawX = xScaleAt(scale, PrimaryInstant(k))

\* C13 as claimed: the layout map has exactly one entry per item of the list,
\* and the entry found under an item's id is the one computed for that item.
C13_OneEntryPerItem ==
    /\ Cardinality(EntryIds) = Len(items)
    /\ \A k \in DOMAIN items : OwnEntry(k)

\* the positions of the periods whose end instant is earlier than their start
ReversedPeriods ==
    {k \in DOMAIN items :
        /\ items[k].type = "period"
        /\ parseDate(Field(items[k], "endDate"), now)
               < parseDate(Field(items[k], "startDate"), now)}

\* C14 as claimed: a period that ends before it starts is laid out with its
\* bar beginning at the pixel position of its start and a bar width of zero.
C14_ReversedPeriodZeroWidth ==
    \A k \in ReversedPeriods :
        LET e == layoutMap[items[k].id]
        IN  /\ e.bar
            /\ e.x1 = xScaleAt(scale, PrimaryInstant(k))
            /\ e.x2 - e.x1 = 0

\* C14 amended: a period that ends before it starts is laid out with its bar
\* beginning at the pixel position of its start and the minimum bar width,
\* MIN_PERIOD_WIDTH times the content scale.
C14_ReversedPeriodMinWidth ==
    \A k \in ReversedPeriods :
        LET e == layoutMap[items[k].id]
        IN  /\ e.bar
            /\ e.x1 = xScaleAt(scale, PrimaryInstant(k))
            /\ e.x2 - e.x1 = Scaled(MIN_PERIOD_WIDTH, Props.s)

\* C14 witness: a reversed period laid out among other items, its end
\* instant mapped to the left of its start
C14_Witness ==
    \E k \in ReversedPeriods :
        /\ Len(items) >= 2
        /\ items[k].id \in EntryIds
        /\ xScaleAt(scale, parseDate(Field(items[k], "endDate"), now))
              < layoutMap[items[k].id].x1

\* all instants of the list fall on one calendar day / in one calendar year
OneDay == Cardinality({DayOf(t) : t \in AllInstants}) <= 1
OneYear == Cardinality({YearOf(t) : t \in AllInstants}) <= 1

\* C15: with compact dates on, the date mode is 'time' exactly when all
\* instants of the list (dates, period starts and period ends) share one day,
\* otherwise 'monthday' exactly when all share one year, otherwise 'full';
\* the empty list gives 'full' and no context label, and the context label
\* is the day, the year or empty accordingly.
C15_SpanModeAllOrNothing ==
    compactDates =>
        dateFormat =
            IF AllInstants = {} THEN [mode |-> "full", label |-> "none"]
            ELSE IF OneDay THEN [mode |-> "time", label |-> "day"]
            ELSE IF OneYear THEN [mode |-> "monthday", label |-> "year"]
            ELSE [mode |-> "full", label |-> "none"]

\* C15 witness: the end of a period is the single instant outside the day
\* all other instants share, and the mode has dropped to 'monthday'
C15_Witness ==
    /\ compactDates /\ dateFormat.mode = "monthday" /\ Len(items) >= 2
    /\ \E k \in DOMAIN items :
          /\ items[k].type = "period"
          /\ LET end == parseDate(Field(items[k], "endDate"), now)
             IN  /\ Cardinality({DayOf(t) : t \in AllInstants \ {end}}) = 1
                 /\ DayOf(end) # DayOf(PrimaryInstant(k))

\* C16: in the carousel every slide i shows the window that starts at
\* i * canvasWidth and is canvasWidth wide, and a layout pass with
\* sliceIndex = i gives the layout map and the scale (gap breaks included)
\* of the pass with sliceIndex = 0.
C16_SlideIsPureCrop ==
    Props.exportMode =>
        \A i \in 0..(Props.totalSlices - 1) :
            LET pass == LayoutPass(items, SlideProps(i), now)
            IN  /\ viewBox(SlideProps(i)).minX = i * Props.canvasWidth
                /\ viewBox(SlideProps(i)).width = Props.canvasWidth
                /\ pass.layoutMap = layoutMap
                /\ pass.scale = scale
                /\ pass.dateFormat = dateFormat

\* C16 witness: three slides, a gap break, and a label on a slide other
\* than the first
C16_Witness ==
    /\ Props.exportMode /\ Props.totalSlices = 3
    /\ Len(scale.breaks) > 0
    /\ \E id \in EntryIds : layoutMap[id].cx > Props.canvasWidth

\* the time value of a date string of the list, all of which parse
TimeOf(k, f) == Field(items[k], f).t

\* two periods of the list overlap (a0 < b1 and b0 < a1), or an event or
\* note lies strictly inside a period
OverlapInList ==
    LET periods == {k \in DOMAIN items : items[k].type = "period"}
    IN  \/ \E a, b \in periods :
              /\ a # b
              /\ TimeOf(a, "startDate") < TimeOf(b, "endDate")
              /\ TimeOf(b, "startDate") < TimeOf(a, "endDate")
        \/ \E k \in PointItems, p \in periods :
              /\ TimeOf(k, "date") > TimeOf(p, "startDate")
              /\ TimeOf(k, "date") < TimeOf(p, "endDate")

\* C17: in every state in which the item list has overlapping periods,
\* avoidSplit is off.
C17_NoAvoidSplitWhileOverlap ==
    OverlapInList => ~avoidSplit

\* C17 witness: an item list with an overlap, avoidSplit off, and the
\* checkbox disabled
C17_Witness ==
    /\ OverlapInList /\ ~avoidSplit /\ Len(items) >= 2
    /\ ~ENABLED ToggleAvoidSplit

\* the bar of period entry p lies under the label of e as the time scale
\* places it, and the marker of e is outside the bar
BarUnderLabel(e, p) ==
    /\ p.bar /\ ~e.bar
    /\ e.rawX + e.halfW > p.x1 /\ e.rawX - e.halfW < p.x2
    /\ (e.rawX < p.x1 \/ e.rawX > p.x2)

\* C18: in non-export mode the label centre of every event and note is less
\* than twice its half-width away from its marker.
C18_ShiftBounded ==
    ~Props.exportMode =>
        \A id \in EntryIds :
            LET e == layoutMap[id]
            IN  ~e.bar => Abs(e.cx - e.rawX) < 2 * e.halfW

\* C18 witness: a label with two different period bars under it, one on
\* each side of its marker, moved away from its marker
C18_Witness ==
    /\ ~Props.exportMode
    /\ \E i, p, q \in EntryIds :
          /\ BarUnderLabel(layoutMap[i], layoutMap[p])
          /\ BarUnderLabel(layoutMap[i], layoutMap[q])
          /\ layoutMap[p].x2 < layoutMap[i].rawX
          /\ layoutMap[i].rawX < layoutMap[q].x1
          /\ layoutMap[i].cx # layoutMap[i].rawX

\* item after is item before with nothing but its label replaced
RelabelledAs(after, before, label) ==
    /\ DOMAIN after = DOMAIN before
    /\ after.label = label
    /\ \A f \in DOMAIN before \ {"label"} : after[f] = before[f]

\* C19: committing the inline editor opened on id with a non-blank value
\* keeps the length and order of the list, gives the items with that id the
\* trimmed value as label and nothing else, and leaves every other item as it
\* was; committing an empty or blank value leaves the list as it was.
C19_EditChangesOnlyLabel ==
    [][\A id \in EditIds, v \in EditValues :
          commitEdit(id, v) =>
              IF Trim(v) = <<>> THEN items' = items
              ELSE /\ Len(items') = Len(items)
                   /\ \A k \in DOMAIN items :
                         IF items[k].id = id
                         THEN RelabelledAs(items'[k], items[k], Trim(v))
                         ELSE items'[k] = items[k]]_vars

\* C19 witness: an item carrying a label typed into the inline editor next
\* to an item that still has the label it was created with
C19_Witness ==
    \E j, k \in DOMAIN items :
        /\ items[j].label = <<"x", "x">>
        /\ items[k].id # items[j].id
        /\ Len(items[k].label) >= 5


\* C20 as claimed: in export mode with avoidSplit enabled and more than one
\* slide, after the layout pass no entry's label interval [cx - halfW, cx + halfW]
\* has a slide boundary i * canvasWidth (1 <= i < totalSlices) in its interior,
\* for periods as well as for events and notes.
C20_NoLabelAcrossBoundary ==
    SnapActive =>
        \A id \in EntryIds :
            Straddled(layoutMap[id].cx, layoutMap[id].halfW) = {}

\* the label centre that clears bar p on the side of the marker of e
ClearOf(e, p) ==
    IF e.rawX < p.x1 THEN p.x1 - e.halfW - Scaled(4, Props.s)
    ELSE p.x2 + e.halfW + Scaled(4, Props.s)

\* the marker of e is outside the bar of p and the label of e, where it ends
\* up, lies over that bar
LabelOnBar(e, p) ==
    /\ p.bar /\ ~e.bar
    /\ (e.rawX < p.x1 \/ e.rawX > p.x2)
    /\ e.cx + e.halfW > p.x1 /\ e.cx - e.halfW < p.x2

\* C21 as claimed: in non-export mode no event or note whose marker is outside
\* a period's bar has its label over that bar at the end of the pass, unless
\* clearing the bar would put the label centre 2 * halfW or more away from the
\* marker; for every period of the list.
C21_NoLabelOnForeignBar ==
    ~Props.exportMode =>
        \A i, p \in EntryIds :
            LabelOnBar(layoutMap[i], layoutMap[p])
                => Abs(ClearOf(layoutMap[i], layoutMap[p]) - layoutMap[i].rawX)
                       >= 2 * layoutMap[i].halfW

\* the entries of the current list as placed, and as collision resolution
\* leaves them, in sortedItems order
Placed == InitialEntries(items, scale, dateFormat.mode, Props, now)
Resolved == ResolveCollisions(Placed, Props.s)

\* the subsequence of seq at the positions in S
RECURSIVE KeepAt(_, _, _)
KeepAt(seq, S, k) ==
    IF k > Len(seq) THEN <<>>
    ELSE IF k \in S THEN <<seq[k]>> \o KeepAt(seq, S, k + 1)
    ELSE KeepAt(seq, S, k + 1)

\* the yExtra collision resolution gives the entry with this id
YExtraOf(entries, id, s) ==
    LET res == ResolveCollisions(entries, s)
    IN  res[CHOOSE k \in DOMAIN res : res[k].id = id].yExtra

\* C22: collision resolution leaves side, cx, rawX and halfW (and every field
\* but yExtra) of every entry as placed; on each side the entries are swept
\* in ascending label-centre order, the first of them keeps yExtra = 0, and
\* the yExtra of an entry is what it is with the entries after it in that
\* order taken away; the layout map carries the yExtra so computed.
C22_ForwardSweepOnly ==
    /\ \A k \in DOMAIN Placed :
          /\ [Resolved[k] EXCEPT !.yExtra = 0] = Placed[k]
          /\ layoutMap[Placed[k].id].yExtra = Resolved[k].yExtra
          /\ layoutMap[Placed[k].id].side = Placed[k].side
          /\ layoutMap[Placed[k].id].halfW = Placed[k].halfW
    /\ \A sideVal \in {Top, Bottom} :
          LET order == SideOrder(Placed, sideVal)
          IN  /\ \A i \in DOMAIN order : Placed[order[i]].side = sideVal
              /\ \A i, j \in DOMAIN order :
                    i < j => Placed[order[i]].cx <= Placed[order[j]].cx
              /\ order # <<>> => Resolved[order[1]].yExtra = 0
              /\ \A i \in DOMAIN order :
                    Resolved[order[i]].yExtra
                        = YExtraOf(KeepAt(Placed, {order[j] : j \in 1..i}, 1),
                                   Placed[order[i]].id, Props.s)

\* C22 witness: a side with three entries of which the second and the third
\* were pushed out, the third further than the second
C22_Witness ==
    \E sideVal \in {Top, Bottom} :
        LET order == SideOrder(Placed, sideVal)
        IN  /\ Len(order) >= 3
            /\ Resolved[order[1]].yExtra = 0
            /\ Resolved[order[2]].yExtra > 0
            /\ Resolved[order[3]].yExtra > Resolved[order[2]].yExtra

\* position of entry k in the sweep order of its side
PosInOrder(k) ==
    LET order == SideOrder(Placed, Placed[k].side)
    IN  CHOOSE i \in DOMAIN order : order[i] = k

\* sets of two or more events of one side whose label intervals, as collision
\* resolution sees them, pairwise overlap, taken as large as they come: no
\* further event of that side overlaps all of them
EventGroups ==
    {G \in SUBSET DOMAIN Placed :
        /\ Cardinality(G) >= 2
        /\ \A k \in G : Placed[k].type = "event"
        /\ \A j, k \in G : Placed[j].side = Placed[k].side
        /\ \A j, k \in G : j # k => Overlaps(Placed[j], Placed[k])
        /\ \A o \in DOMAIN Placed \ G :
              ~(/\ Placed[o].type = "event"
                /\ \A k \in G : Placed[o].side = Placed[k].side
                /\ \A k \in G : Overlaps(Placed[o], Placed[k]))}

\* no member of G overlaps an entry of its side that is not in G
Isolated(G) ==
    \A k \in G, o \in DOMAIN Placed \ G :
        Placed[o].side = Placed[k].side => ~Overlaps(Placed[k], Placed[o])

\* the yExtra values of G in sweep order start at 0 and go up by at least the
\* event band height plus the gap from each member to the next
StacksUp(G) ==
    /\ \A k \in G :
          (\A j \in G : PosInOrder(k) <= PosInOrder(j))
              => layoutMap[Placed[k].id].yExtra = 0
    /\ \A j, k \in G :
          PosInOrder(j) < PosInOrder(k)
              => layoutMap[Placed[k].id].yExtra
                     >= layoutMap[Placed[j].id].yExtra + Scaled(55 + 10, Props.s)

\* C23 as claimed: for any two or more events of one side whose label
\* intervals pairwise overlap, the yExtra values in ascending label-centre
\* order are strictly increasing, start at 0, and each exceeds the previous
\* by at least the event band height plus the gap of 10 * contentScale.
C23_EventsStackFromZero ==
    \A G \in EventGroups : StacksUp(G)

\* C23 amended: the same, for the groups none of whose events overlaps any
\* other entry of that side.
C23_IsolatedEventsStackFromZero ==
    \A G \in EventGroups : Isolated(G) => StacksUp(G)

\* C23 witness: three events of one side a few pixels apart, overlapping
\* nothing else on their side, stacked
C23_Witness ==
    \E G \in EventGroups :
        /\ Cardinality(G) = 3 /\ Isolated(G)
        /\ \A j, k \in G : Abs(Placed[j].cx - Placed[k].cx) <= Px(10)
        /\ \E k \in G : layoutMap[Placed[k].id].yExtra >= 2 * Scaled(55 + 10, Props.s)

\* the one-based positions of the gaps of the scale that exceed the threshold,
\* ascending
LongGaps ==
    SetToSortedSeq({i \in DOMAIN Gaps(scale.unique) :
                       Gaps(scale.unique)[i] > scale.threshold})

\* C24: the compressed scale has one break position per gap above the
\* threshold and no other; the k-th break is the average of the pixel
\* positions of the two timestamps bounding the k-th such gap (to within the
\* 1/100 px the positions are rounded to), and the breaks ascend.
C24_BreakPerLongGap ==
    scale.kind = "compressed" =>
        /\ Len(scale.breaks) = Len(LongGaps)
        /\ \A k \in DOMAIN scale.breaks :
              LET i == LongGaps[k]
                  left == xScaleAt(scale, scale.unique[i])
                  right == xScaleAt(scale, scale.unique[i + 1])
              IN  /\ Abs(2 * scale.breaks[k] - (left + right)) < 4
                  /\ left < scale.breaks[k] /\ scale.breaks[k] < right
        /\ \A k, l \in DOMAIN scale.breaks :
              k < l => scale.breaks[k] < scale.breaks[l]

\* C24 witness: a compressed scale with three breaks, a gap equal to the
\* threshold and a gap below it
C24_Witness ==
    /\ scale.kind = "compressed"
    /\ Len(scale.breaks) = 3
    /\ \E i, j \in DOMAIN Gaps(scale.unique) :
          /\ Gaps(scale.unique)[i] = scale.threshold
          /\ Gaps(scale.unique)[j] < scale.threshold

\* the pixel range of the scale of the current render
rangeStart == rangeStartOf(Props)
rangeEnd == rangeEndOf(Props)

\* C25 as claimed: with compressGaps on and two or more items whose instants
\* are all one and the same, the scale maps that instant to the pixel midpoint
\* (rangeStart + rangeEnd) / 2 of the range and there are no break markers.
C25_OneInstantAtMidpoint ==
    (compressGaps /\ Len(items) >= 2 /\ Cardinality(AllInstants) = 1) =>
        /\ \A t \in AllInstants :
              xScaleAt(scale, t) = (rangeStart + rangeEnd) \div 2
        /\ scale.breaks = <<>>

\* C28: the current slide is always one of the slides, 0 .. exportSlices - 1;
\* a step that changes exportSlices or switches the carousel mode leaves the
\* carousel on slide 0; and the steps of a drag gesture (pointer down, move,
\* up, cancel) change the current slide by at most 1 in all, at the release.
C28_CurrentSlideInRange ==
    /\ [](currentSlide \in 0..(exportSlices - 1))
    /\ [][(exportSlices' # exportSlices \/ showCarouselPreview' # showCarouselPreview)
              => currentSlide' = 0]_vars
    /\ [][(\/ handlePointerDown
            \/ \E dx \in DragDx, dy \in DragDy : handlePointerMove(dx, dy)
            \/ handlePointerCancel) => currentSlide' = currentSlide]_vars
    /\ [][handlePointerUp => Abs(currentSlide' - currentSlide) <= 1]_vars

\* C28 witness: the carousel on its last slide, not the first, with a drag
\* pulled outwards beyond the release threshold
C28_Witness ==
    /\ showCarouselPreview
    /\ currentSlide = exportSlices - 1 /\ currentSlide > 0
    /\ isDragging /\ dragOffset < -DragThreshold


\* the carousel invocations with a slide pass in progress: the slide's image
\* has been handed to the browser and its file has not been downloaded yet
SlidePasses ==
    {r \in 1..MaxExports :
        exportRuns[r].format = "carousel" /\ exportRuns[r].pc \in {"loading", "failed"}}

\* the files of invocation r so far are slides 1, 2, ... in this order, and
\* slide i + 1 is under way only when slides 1 .. i have been downloaded
InSlideOrder(r) ==
    LET run == exportRuns[r]
    IN  /\ run.emitted = [k \in 1..Len(run.emitted) |-> k]
        /\ Len(run.emitted) <= run.slices
        /\ run.pc \in {"loading", "failed"} => Len(run.emitted) = run.i
        /\ run.pc = "pause" => Len(run.emitted) = run.i + 1
        /\ run.pc = "timer" => Len(run.emitted) = run.slices

\* C26: carousel export is serialized: at no time are two slide passes in
\* progress, and every carousel invocation downloads slides 1 .. exportSlices
\* in this order, slide i + 1 starting only after slide i was downloaded.
C26_CarouselSerialized ==
    /\ Cardinality(SlidePasses) <= 1
    /\ \A r \in 1..MaxExports : exportRuns[r].format = "carousel" => InSlideOrder(r)

\* the part of C26 that concerns one invocation by itself
C26_EachRunInOrder ==
    \A r \in 1..MaxExports : exportRuns[r].format = "carousel" => InSlideOrder(r)


\* C29: every export comes to an end: whenever isExporting is true it is
\* false again later, whatever the format and also when an image never loads;
\* and isExporting is true as long as an invocation is still producing files.
C29_ExportEnds ==
    /\ isExporting ~> ~isExporting
    /\ [](Generating # {} => isExporting)

\* the first half of C29 alone
C29_ExportingClears == isExporting ~> ~isExporting

\* the second half of C29 alone
C29_ExportingWhileGenerating == Generating # {} => isExporting


\* the lists that hold the items of its in another order
Reorderings(its) ==
    LET n == Len(its)
    IN  {[k \in 1..n |-> its[p[k]]] :
            p \in {q \in [1..n -> 1..n] : \A a, b \in 1..n : a # b => q[a] # q[b]}}

\* C27: the layout does not depend on the order of the item list: every
\* list holding the same items in another order gets, under the same
\* configuration and at the same clock reading, the same layout map, entry by
\* entry.
C27_OrderIndependent ==
    \A its \in Reorderings(items) :
        LayoutPass(its, Props, now).layoutMap = LayoutPass(items, Props, now).layoutMap

\* the items of the list have primary instants that differ from each other
DistinctInstants ==
    \A a, b \in 1..Len(items) :
        a # b => getItemDate(items[a], now) # getItemDate(items[b], now)

\* C27 for the lists whose items have primary instants that differ from
\* each other
C27_OrderIndependentIfDistinct ==
    DistinctInstants => C27_OrderIndependent


\* the instants the scale is asked about: the timestamps it collected, the
\* items' instants, the two ends of the domain, and an instant before and
\* after all of them
ProbedInstants ==
    LET known == Range(scale.unique) \cup AllInstants \cup {minMax.min, minMax.max}
    IN  known \cup {SetMin(known) - 1, SetMax(known) + 1}

\* C30: a scale built by buildCompressedScale is never the constant fallback
\* of the 'cum === 0' guard and its threshold is positive, because every gap
\* between collected timestamps is positive and the cumulative distance
\* strictly increasing; every value it returns lies in [rangeStart, rangeEnd],
\* the earliest timestamp and anything before it at rangeStart, the latest and
\* anything after it at rangeEnd; distinct item instants get distinct pixel
\* positions.
C30_CompressedScaleInRange ==
    (compressGaps /\ Len(items) >= 2) =>
        /\ scale.kind = "compressed"
        /\ scale.threshold > 0 /\ scale.cum > 0
        /\ \A i \in DOMAIN Gaps(scale.unique) :
              /\ Gaps(scale.unique)[i] > 0
              /\ scale.compressed[i] < scale.compressed[i + 1]
        /\ \A t \in ProbedInstants :
              /\ rangeStart <= xScaleAt(scale, t) /\ xScaleAt(scale, t) <= rangeEnd
              /\ t <= scale.unique[1] => xScaleAt(scale, t) = rangeStart
              /\ t >= scale.unique[Len(scale.unique)] => xScaleAt(scale, t) = rangeEnd
        /\ \A t1, t2 \in AllInstants :
              t1 # t2 => xScaleAt(scale, t1) # xScaleAt(scale, t2)

\* C30 witness: a compressed scale with a break, an item instant before the
\* start of the domain or after its end, and three item instants in all
C30_Witness ==
    /\ compressGaps /\ Len(items) >= 2
    /\ scale.kind = "compressed" /\ Len(scale.breaks) > 0
    /\ Cardinality(AllInstants) >= 3
    /\ \E t \in AllInstants : t < minMax.min \/ t > minMax.max

====
